---- MODULE Spec2Model ----
(***************************************************************************)
(* Model of the ksched flow scheduler (scheduling/flow/flowscheduler/      *)
(* scheduler.go) and of the lock-guarded registries it reads (pkg/types).  *)
(* The Graph Manager and the Solver are external collaborators; their      *)
(* answers are modelled from the specification.                            *)
(***************************************************************************)
EXTENDS Integers, Sequences, FiniteSets, TLC

\* ------------------------------------------------------------------ bounds
\* Longest list SchedulingDeltasForPreemptedTasks returns in one round.
MaxPreempt == 1
\* Largest number of (task, resource) pairs in one solver assignment.
MaxAssign == 2
\* Longest delta list handed to ApplySchedulingDeltas by a direct caller.
MaxApply == 4
\* Longest delta list applied over registries that lack some entries.
MaxList == 2
\* Number of goroutines calling registry operations concurrently.
NumProcs == 2

\* --------------------------------------------------------------- universe
\* A nil pointer.
NULL == [nil |-> TRUE]
\* lastOp.arg of an operation without an argument.
NoArg == "-"

JobIDs == {"J1", "J2"}
TaskIDs == {"T1", "T2"}
ResourceIDs == {"P1", "P2"}

\* Uuid strings carried by the descriptors and by the deltas.
JobUuid(j) == IF j = "J1" THEN "j1" ELSE "j2"
ResourceUuid(r) == IF r = "P1" THEN "p1" ELSE "p2"
ResourceUuids == {ResourceUuid(r) : r \in ResourceIDs}

\* util.MustJobIDFromString / util.MustResourceIDFromString: the numeric
\* handle derived from a Uuid string.
MustJobIDFromString(s) == CHOOSE j \in JobIDs : JobUuid(j) = s
MustResourceIDFromString(s) == CHOOSE r \in ResourceIDs : ResourceUuid(r) = s

\* pb.JobDescriptor states.
JobStates == {"Pending", "Running", "Completed"}

\* pb.TaskDescriptor: T1 and T2 are the tasks of job J1; job J2 has none.
TaskDescriptor(t) == [Uid |-> t, JobID |-> JobUuid("J1")]
\* pb.JobDescriptor of job j, as an object; its State field is jobState[j].
JobDescriptor(j) == [Uuid |-> JobUuid(j)]
\* rs.ResourceStatus wrapping the descriptor of a processing unit.
ResourceStatus(r) == [Uuid |-> ResourceUuid(r)]

\* Resource topology: machine M1 with the processing units P1 and P2 below it,
\* and a second machine M2 without processing units.
Nodes == {"M1", "M2", "P1", "P2"}
NodeType(n) == IF n \in {"M1", "M2"} THEN "MACHINE" ELSE "PU"
ParentId(n) == IF n \in {"M1", "M2"} THEN "" ELSE "M1"
Children(n) == IF n = "M1" THEN <<"P1", "P2">> ELSE <<>>
\* The nodes RegisterResource is called with: the machine, and one of its
\* processing units on its own.
RegisterArgs == {"M1", "P1"}

\* pb.SchedulingDelta.
DeltaTypes == {"NOOP", "PLACE", "PREEMPT", "MIGRATE"}
SchedulingDelta(ty, t, r) == [Type |-> ty, TaskId |-> t, ResourceId |-> ResourceUuid(r)]

\* ----------------------------------------------------------------- helpers
Range(s) == {s[i] : i \in 1..Len(s)}
\* Sequences without repetition that enumerate exactly the set S.
Orders(S) == {s \in [1..Cardinality(S) -> S] : Range(s) = S}
SeqsUpTo(S, n) == UNION {[1..k -> S] : k \in 0..n}
\* Go: delete(m, k)
MapDelete(m, k) == [x \in DOMAIN m \ {k} |-> m[x]]
\* Go: m[k] = v
MapPut_Replace(m, k, v) == [x \in {k} |-> v]
MapPut(m, k, v) == [x \in DOMAIN m \cup {k} |-> IF x = k THEN v ELSE m[x]]
EmptyMap == [x \in {} |-> NULL]

\* ------------------------------------------------------------------- state
VARIABLES
  jobMap,          \* Job Registry: JobID -> pointer to a JobDescriptor
  taskMap,         \* Task Registry: TaskID -> TaskDescriptor
  resourceMap,     \* Resource Registry: ResourceID -> ResourceStatus
  jobState,        \* the State field of each JobDescriptor object
  schedulable,     \* the Schedulable field of each topology node's descriptor
  resourceRoots,   \* scheduler.resourceRoots
  taskBindings,    \* scheduler.taskBindings
  jobsToSchedule,  \* scheduler.jobsToSchedule
  runnableTasks,   \* scheduler.runnableTasks
  halted,          \* the process stopped on a panic or log.Fatalf
  lastOp,          \* the operation called last, its argument, and whether it returned
  retDeltas,       \* delta list returned by (or handed to) the last operation
  retOrigin,       \* for each returned delta, the Graph Manager call that produced it
  retNum,          \* placement count returned by the last operation
  hookLog,         \* hooks invoked by the last operation, in order
  jobWrites,       \* assignments of line 132 the last operation executed: <<job, old state>>
  callLog,         \* calls the last operation made to its collaborators, in order
  hjcTrace,        \* HandleJobCompletion: the job's situation after each statement
  registered,      \* topology nodes RegisterResource has been called with
  pc,              \* per goroutine: the registry operation whose locked section it is in
  regCall          \* the registry operation that returned last: arguments and result

vars == <<jobMap, taskMap, resourceMap, jobState, schedulable, resourceRoots,
          taskBindings, jobsToSchedule, runnableTasks, halted, lastOp,
          retDeltas, retOrigin, retNum, hookLog, jobWrites, callLog, hjcTrace,
          registered, pc, regCall>>

\* ---------------------------------------------------------------- registries
\* The three registries, and the operations each of them has.
Registries == {"resourceMap", "jobMap", "taskMap"}
ReadOps == {"FindWithDefault", "FindPtrOrNull", "FindCopy", "ContainsKey"}
WriteOps == {"InsertOrUpdate", "InsertIfNotPresent"}

\* The goroutines, and the position of one that is in no locked section.
Procs == 1..NumProcs
Idle == [reg |-> "-", op |-> "-"]
NoCall == [reg |-> "-", op |-> "-", k |-> "-", val |-> NULL, ret |-> FALSE]

\* The call an operation opens with: RWMu.Lock() in the two insertions,
\* RWMu.RLock() in the four lookups.
LockKind_AllRead(op) == "RLock"
LockKind(op) == IF op \in WriteOps THEN "Lock" ELSE "RLock"

\* sync.RWMutex: Lock waits until nobody holds the mutex, RLock until no writer
\* holds it. held is the set of lock kinds currently held.
RWMutexGrants(held, kind) == IF kind = "Lock" THEN held = {} ELSE "Lock" \notin held

\* InsertOrUpdate: stores val under k; true when k was not there.
InsertOrUpdate(M, k, val) == [M |-> MapPut(M, k, val), ret |-> k \notin DOMAIN M]
\* InsertIfNotPresent: stores val under k only when k is not there; true then.
InsertIfNotPresent_Overwrite(M, k, val) == [M |-> MapPut(M, k, val), ret |-> k \notin DOMAIN M]
InsertIfNotPresent(M, k, val) ==
  [M |-> IF k \notin DOMAIN M THEN MapPut(M, k, val) ELSE M, ret |-> k \notin DOMAIN M]

\* FindPtrOrNull: the stored pointer, nil for a missing key.
FindPtrOrNull_NeverNil(M, k) == IF k \in DOMAIN M THEN M[k] ELSE JobDescriptor(k)
FindPtrOrNull(M, k) == IF k \in DOMAIN M THEN M[k] ELSE NULL

\* ------------------------------------------------------------ Graph Manager
\* SchedulingDeltasForPreemptedTasks: a list of PREEMPT deltas, one for each task
\* the Graph Manager finds preempted from the resource it was running on.
PreemptedDeltaLists ==
  {s \in SeqsUpTo({SchedulingDelta("PREEMPT", t, r) : t \in TaskIDs, r \in ResourceIDs},
                  MaxPreempt) :
     \A i, k \in 1..Len(s) : i # k => s[i].TaskId # s[k].TaskId}

\* NodeBindingToSchedulingDelta: classifies one pair against the bindings.
NodeBindingToSchedulingDelta(t, r, tb) ==
  IF t \notin DOMAIN tb THEN SchedulingDelta("PLACE", t, r)
  ELSE IF tb[t] # r THEN SchedulingDelta("MIGRATE", t, r)
  ELSE SchedulingDelta("NOOP", t, r)

\* Solver.Solve: a task -> resource assignment.
TaskMappings ==
  UNION {[D -> ResourceIDs] : D \in {X \in SUBSET TaskIDs : Cardinality(X) <= MaxAssign}}

\* ------------------------------------------------------ ApplySchedulingDeltas
\* The job state a PLACE delta leaves behind (lines 131-133).
PlaceJobState_Skip(st) == st
PlaceJobState(st) == IF st # "Running" THEN "Running" ELSE st

\* The placement counter after a delta of type ty (line 135: only PLACE counts).
NumScheduledAfter_CountAll(n, ty) == n + 1
NumScheduledAfter_CountMigrate(n, ty) == IF ty \in {"PLACE", "MIGRATE"} THEN n + 1 ELSE n
NumScheduledAfter(n, ty) == IF ty = "PLACE" THEN n + 1 ELSE n

\* jd.State, read through the pointer jd, in the job states js.
JobStateOf(js, jd) == js[MustJobIDFromString(jd.Uuid)]

\* One iteration of the loop over the deltas. acc carries the job states, the
\* counter, the hooks invoked so far and whether the loop is still running.
ApplyDelta(acc, d) ==
  LET td == FindPtrOrNull(taskMap, d.TaskId) IN
  IF td = NULL THEN [acc EXCEPT !.status = "panic"]
  ELSE IF d.ResourceId \notin ResourceUuids THEN [acc EXCEPT !.status = "panic"]
  ELSE
  LET resID == MustResourceIDFromString(d.ResourceId)
      rs == FindPtrOrNull(resourceMap, resID) IN
  IF rs = NULL THEN [acc EXCEPT !.status = "panic"]
  ELSE CASE d.Type = "PLACE" ->
              LET jd == FindPtrOrNull(jobMap, MustJobIDFromString(td.JobID)) IN
              IF jd = NULL THEN [acc EXCEPT !.status = "panic"]
              ELSE [acc EXCEPT
                      !.jobState[MustJobIDFromString(jd.Uuid)] = PlaceJobState(@),
                      !.writes = IF PlaceJobState(JobStateOf(acc.jobState, jd)) #
                                      JobStateOf(acc.jobState, jd)
                                 THEN Append(@, <<MustJobIDFromString(jd.Uuid),
                                                  JobStateOf(acc.jobState, jd)>>)
                                 ELSE @,
                      !.hooks = Append(@, <<"HandleTaskPlacement", td.Uid, rs.Uuid>>),
                      !.num = NumScheduledAfter(@, d.Type)]
         [] d.Type = "PREEMPT" ->
              [acc EXCEPT
                 !.hooks = Append(@, <<"HandleTaskEviction", td.Uid, rs.Uuid>>),
                 !.num = NumScheduledAfter(@, d.Type)]
         [] d.Type = "MIGRATE" ->
              [acc EXCEPT
                 !.hooks = Append(@, <<"HandleTaskMigration", td.Uid, rs.Uuid>>),
                 !.num = NumScheduledAfter(@, d.Type)]
         [] d.Type = "NOOP" -> [acc EXCEPT !.num = NumScheduledAfter(@, d.Type)]
         [] OTHER -> [acc EXCEPT !.status = "fatal"]

RECURSIVE ApplyFrom_KeepGoing(_, _, _)
ApplyFrom_KeepGoing(acc, deltas, i) ==
  IF i > Len(deltas) THEN acc
  ELSE LET nxt == ApplyDelta([acc EXCEPT !.status = "ok"], deltas[i]) IN
       ApplyFrom_KeepGoing([nxt EXCEPT !.status = IF acc.status # "ok" THEN acc.status ELSE @],
                           deltas, i + 1)

\* The loop of lines 117-145: a panic or log.Fatalf ends it.
RECURSIVE ApplyFrom(_, _, _)
ApplyFrom(acc, deltas, i) ==
  IF i > Len(deltas) \/ acc.status # "ok" THEN acc
  ELSE ApplyFrom(ApplyDelta(acc, deltas[i]), deltas, i + 1)

\* ApplySchedulingDeltas(deltas) run on the job states js.
ApplySchedulingDeltas(js, deltas) ==
  ApplyFrom([jobState |-> js, num |-> 0, hooks |-> <<>>, writes |-> <<>>, status |-> "ok"],
            deltas, 1)

\* ------------------------------------------------------- HandleJobCompletion
\* What hjcTrace keeps of one view st = [jts, rt, js]: the statement that led to
\* it, whether the job is still in either set, and the job's state.
JobSituation(stmt, st, jobID, jd) ==
  [stmt |-> stmt,
   inJobsToSchedule |-> jobID \in DOMAIN st.jts,
   inRunnableTasks |-> jobID \in DOMAIN st.rt,
   state |-> JobStateOf(st.js, jd)]

\* Lines 56-58 run on the view st for a job whose registry entry jd was found:
\* the views after each of the three statements, in the order they execute.
HandleJobCompletionSteps_StateFirst(st, jobID, jd) ==
  LET s1 == [st EXCEPT !.js[MustJobIDFromString(jd.Uuid)] = "Completed"]
      s2 == [s1 EXCEPT !.jts = MapDelete(@, jobID)]
      s3 == [s2 EXCEPT !.rt = MapDelete(@, jobID)]
  IN <<[stmt |-> "State = Completed", st |-> s1],
       [stmt |-> "delete jobsToSchedule", st |-> s2],
       [stmt |-> "delete runnableTasks", st |-> s3]>>
HandleJobCompletionSteps_KeepRunnable(st, jobID, jd) ==
  LET s1 == [st EXCEPT !.jts = MapDelete(@, jobID)]
      s3 == [s1 EXCEPT !.js[MustJobIDFromString(jd.Uuid)] = "Completed"]
  IN <<[stmt |-> "delete jobsToSchedule", st |-> s1],
       [stmt |-> "State = Completed", st |-> s3]>>
HandleJobCompletionSteps(st, jobID, jd) ==
  LET s1 == [st EXCEPT !.jts = MapDelete(@, jobID)]
      s2 == [s1 EXCEPT !.rt = MapDelete(@, jobID)]
      s3 == [s2 EXCEPT !.js[MustJobIDFromString(jd.Uuid)] = "Completed"]
  IN <<[stmt |-> "delete jobsToSchedule", st |-> s1],
       [stmt |-> "delete runnableTasks", st |-> s2],
       [stmt |-> "State = Completed", st |-> s3]>>

ClearReturn ==
  /\ retDeltas' = <<>>
  /\ retOrigin' = <<>>
  /\ retNum' = 0
  /\ hookLog' = <<>>
  /\ jobWrites' = <<>>

\* ------------------------------------------------------------------- Init
\* A scheduler newly built over the registries of its caller, which hold the
\* job J1, its tasks T1 and T2 and the processing units P1 and P2; job J2 has
\* no Job Registry entry.
Init ==
  /\ jobMap = [j \in {"J1"} |-> JobDescriptor(j)]
  /\ taskMap = [t \in TaskIDs |-> TaskDescriptor(t)]
  /\ resourceMap = [r \in ResourceIDs |-> ResourceStatus(r)]
  /\ jobState = [j \in JobIDs |-> "Pending"]
  /\ schedulable = [n \in Nodes |-> FALSE]
  /\ resourceRoots = {}
  /\ taskBindings = EmptyMap
  /\ jobsToSchedule = EmptyMap
  /\ runnableTasks = EmptyMap
  /\ halted = FALSE
  /\ lastOp = [op |-> "new", arg |-> NoArg, returned |-> TRUE, again |-> FALSE]
  /\ retDeltas = <<>>
  /\ retOrigin = <<>>
  /\ retNum = 0
  /\ hookLog = <<>>
  /\ jobWrites = <<>>
  /\ callLog = <<>>
  /\ hjcTrace = <<>>
  /\ registered = {}
  /\ pc = [p \in Procs |-> Idle]
  /\ regCall = NoCall

\* ---------------------------------------------------------------- actions
\* AddJob(jd), jd the descriptor of job j.
AddJob(j) ==
  /\ ~halted
  /\ jobsToSchedule' = MapPut(jobsToSchedule, MustJobIDFromString(JobDescriptor(j).Uuid),
                             JobDescriptor(j))
  /\ lastOp' = [op |-> "AddJob", arg |-> j, returned |-> TRUE, again |-> FALSE]
  /\ ClearReturn
  /\ callLog' = <<>> /\ hjcTrace' = <<>>
  /\ UNCHANGED <<pc, regCall, jobMap, taskMap, resourceMap, jobState, schedulable, resourceRoots,
                 taskBindings, runnableTasks, halted, registered>>

\* The tasks of a job to schedule become its runnable tasks: all of them are
\* declared runnable.
ComputeRunnableTasksForJob(j) ==
  /\ ~halted
  /\ j \in DOMAIN jobsToSchedule
  /\ runnableTasks' =
       MapPut(runnableTasks, j,
              {t \in TaskIDs : MustJobIDFromString(TaskDescriptor(t).JobID) = j})
  /\ lastOp' = [op |-> "ComputeRunnableTasksForJob", arg |-> j, returned |-> TRUE,
                again |-> FALSE]
  /\ ClearReturn
  /\ callLog' = <<>> /\ hjcTrace' = <<>>
  /\ UNCHANGED <<pc, regCall, jobMap, taskMap, resourceMap, jobState, schedulable, resourceRoots,
                 taskBindings, jobsToSchedule, halted, registered>>

\* HandleJobCompletion(jobID): the Graph Manager is told first; a job without a
\* Job Registry entry panics (line 54) before anything is changed.
HandleJobCompletion(jobID) ==
  /\ ~halted
  /\ callLog' = <<<<"JobCompleted", jobID>>>>
  /\ ClearReturn
  /\ LET jd == FindPtrOrNull(jobMap, jobID) IN
     IF jd = NULL
     THEN /\ halted' = TRUE
          /\ lastOp' = [op |-> "HandleJobCompletion", arg |-> jobID, returned |-> FALSE,
                        again |-> FALSE]
          /\ hjcTrace' = <<>>
          /\ UNCHANGED <<jobsToSchedule, runnableTasks, jobState>>
     ELSE LET st == [jts |-> jobsToSchedule, rt |-> runnableTasks, js |-> jobState]
              steps == HandleJobCompletionSteps(st, jobID, jd)
              end == steps[Len(steps)].st
          IN /\ jobsToSchedule' = end.jts
             /\ runnableTasks' = end.rt
             /\ jobState' = end.js
             /\ hjcTrace' = <<JobSituation("entry", st, jobID, jd)>> \o
                              [i \in 1..Len(steps) |->
                                 JobSituation(steps[i].stmt, steps[i].st, jobID, jd)]
             /\ lastOp' = [op |-> "HandleJobCompletion", arg |-> jobID, returned |-> TRUE,
                           again |-> FALSE]
             /\ UNCHANGED halted
  /\ UNCHANGED <<pc, regCall, jobMap, taskMap, resourceMap, schedulable, resourceRoots, taskBindings,
                 registered>>

\* ---------------------------------------------------------- RegisterResource
\* Line 68-70: the flag of a visited node.
MarkSchedulable_Toggle(flag, type) == IF type = "PU" THEN ~flag ELSE flag
MarkSchedulable(flag, type) == IF type = "PU" THEN TRUE ELSE flag

\* The nodes the loop body pushes onto toVisit for the node it popped: the
\* loop of lines 66-71 pushes nothing.
PushedFor(n) == <<>>

\* The loop of lines 66-71 on the queue toVisit, sched the flags so far.
RECURSIVE VisitAll(_, _)
VisitAll(toVisit, sched) ==
  IF toVisit = <<>> THEN sched
  ELSE LET n == Head(toVisit) IN
       VisitAll(Tail(toVisit) \o PushedFor(n),
                [sched EXCEPT ![n] = MarkSchedulable(@, NodeType(n))])

\* Lines 75-77.
RootsAfter_Always(roots, rtnd) == roots \cup {rtnd}
RootsAfter(roots, rtnd) == IF ParentId(rtnd) = "" THEN roots \cup {rtnd} ELSE roots

\* RegisterResource(rtnd).
RegisterResource(rtnd) ==
  /\ ~halted
  /\ schedulable' = VisitAll(<<rtnd>>, schedulable)
  /\ callLog' = <<<<"AddResourceTopology", rtnd>>>>
  /\ resourceRoots' = RootsAfter(resourceRoots, rtnd)
  /\ registered' = registered \cup {rtnd}
  /\ lastOp' = [op |-> "RegisterResource", arg |-> rtnd, returned |-> TRUE,
                again |-> rtnd \in registered]
  /\ ClearReturn
  /\ hjcTrace' = <<>>
  /\ UNCHANGED <<pc, regCall, jobMap, taskMap, resourceMap, jobState, taskBindings,
                 jobsToSchedule, runnableTasks, halted>>

\* ------------------------------------------------------ RunSchedulingIteration
\* Lines 96-103: the list handed to ApplySchedulingDeltas, built from what
\* SchedulingDeltasForPreemptedTasks returned and from the deltas of the pairs.
BuildDeltas_BindingsFirst(preempted, bindings) == bindings \o preempted
BuildDeltas_DropFirst(preempted, bindings) ==
  preempted \o (IF bindings = <<>> THEN <<>> ELSE Tail(bindings))
BuildDeltas(preempted, bindings) == preempted \o bindings

\* What one round computes from the solver's assignment, the order in which the
\* range loop of line 98 visits its pairs, and the preemption deltas.
RoundDeltas(taskMappings, order, preempted) ==
  BuildDeltas(preempted,
              [i \in 1..Len(order) |->
                 NodeBindingToSchedulingDelta(order[i], taskMappings[order[i]], taskBindings)])

RoundOrigin(order, preempted) ==
  BuildDeltas([i \in 1..Len(preempted) |-> "SchedulingDeltasForPreemptedTasks"],
              [i \in 1..Len(order) |-> "NodeBindingToSchedulingDelta"])

\* Lines 108-110: one UpdateResourceTopology call for each root, in the order
\* the range loop visits them.
UpdateCalls_SkipFirst(rootOrder) ==
  [i \in 1..(Len(rootOrder) - 1) |-> <<"UpdateResourceTopology", rootOrder[i + 1]>>]
UpdateCalls(rootOrder) ==
  [i \in 1..Len(rootOrder) |-> <<"UpdateResourceTopology", rootOrder[i]>>]

\* RunSchedulingIteration: solve, build the deltas, apply them, then notify the
\* Graph Manager of every root. A panic while applying ends the process with the
\* job states the deltas applied so far have left.
RunSchedulingIteration ==
  /\ ~halted
  /\ \E taskMappings \in TaskMappings, preempted \in PreemptedDeltaLists :
     \E order \in Orders(DOMAIN taskMappings), rootOrder \in Orders(resourceRoots) :
     \E deltas \in {RoundDeltas(taskMappings, order, preempted)} :
     \E res \in {ApplySchedulingDeltas(jobState, deltas)} :
     \E before \in {<<<<"Solve">>, <<"SchedulingDeltasForPreemptedTasks">>>> \o
                    [i \in 1..Len(order) |->
                       <<"NodeBindingToSchedulingDelta", order[i], taskMappings[order[i]]>>] \o
                    <<<<"ApplySchedulingDeltas">>>>} :
          /\ jobState' = res.jobState
          /\ retDeltas' = deltas
          /\ retOrigin' = RoundOrigin(order, preempted)
          /\ hookLog' = res.hooks
          /\ jobWrites' = res.writes
          /\ retNum' = res.num
          /\ IF res.status = "ok"
             THEN /\ callLog' = before \o UpdateCalls(rootOrder)
                  /\ lastOp' = [op |-> "RunSchedulingIteration", arg |-> NoArg,
                                returned |-> TRUE, again |-> FALSE]
                  /\ UNCHANGED halted
             ELSE /\ callLog' = before
                  /\ lastOp' = [op |-> "RunSchedulingIteration", arg |-> NoArg,
                                returned |-> FALSE, again |-> FALSE]
                  /\ halted' = TRUE
  /\ hjcTrace' = <<>>
  /\ UNCHANGED <<pc, regCall, jobMap, taskMap, resourceMap, schedulable, resourceRoots, taskBindings,
                 jobsToSchedule, runnableTasks, registered>>

Next ==
  \/ \E j \in JobIDs : AddJob(j)
  \/ \E j \in JobIDs : ComputeRunnableTasksForJob(j)
  \/ \E j \in JobIDs : HandleJobCompletion(j)
  \/ \E n \in RegisterArgs : RegisterResource(n)
  \/ RunSchedulingIteration

Spec == Init /\ [][Next]_vars

\* ------------------------------------------------ ApplySchedulingDeltas, called
\* The deltas a caller hands to ApplySchedulingDeltas directly: one of each type,
\* and one of a type the switch does not know, for a registered task and resource.
AppliedDeltas == {SchedulingDelta(ty, "T1", "P1") : ty \in DeltaTypes \cup {"UNKNOWN"}}
ApplyArgs ==
  UNION {Orders(S) : S \in {X \in SUBSET AppliedDeltas : Cardinality(X) <= MaxApply}}

\* ApplySchedulingDeltas(deltas) called on its own, outside a round.
ApplySchedulingDeltasCall(deltas) ==
  /\ ~halted
  /\ \E res \in {ApplySchedulingDeltas(jobState, deltas)} :
       /\ jobState' = res.jobState
       /\ retDeltas' = deltas
       /\ retOrigin' = [i \in 1..Len(deltas) |-> "caller"]
       /\ hookLog' = res.hooks
       /\ jobWrites' = res.writes
       /\ retNum' = res.num
       /\ halted' = (res.status # "ok")
       /\ lastOp' = [op |-> "ApplySchedulingDeltas", arg |-> NoArg,
                     returned |-> (res.status = "ok"), again |-> FALSE]
  /\ callLog' = <<>>
  /\ hjcTrace' = <<>>
  /\ UNCHANGED <<pc, regCall, jobMap, taskMap, resourceMap, schedulable, resourceRoots, taskBindings,
                 jobsToSchedule, runnableTasks, registered>>

\* The scheduler driven by job events, rounds and direct applications of deltas.
NextApply ==
  \/ \E j \in JobIDs : AddJob(j)
  \/ \E j \in JobIDs : HandleJobCompletion(j)
  \/ RunSchedulingIteration
  \/ \E deltas \in ApplyArgs : ApplySchedulingDeltasCall(deltas)

SpecApply == Init /\ [][NextApply]_vars

\* --------------------------------------------- rounds over a binding snapshot
\* The snapshots taskBindings can hold when a round starts.
BindingSnapshots == UNION {[D -> ResourceIDs] : D \in SUBSET TaskIDs}

\* The scheduler of Init, its taskBindings holding a snapshot of earlier rounds.
InitBound ==
  /\ jobMap = [j \in {"J1"} |-> JobDescriptor(j)]
  /\ taskMap = [t \in TaskIDs |-> TaskDescriptor(t)]
  /\ resourceMap = [r \in ResourceIDs |-> ResourceStatus(r)]
  /\ jobState = [j \in JobIDs |-> "Pending"]
  /\ schedulable = [n \in Nodes |-> FALSE]
  /\ resourceRoots = {}
  /\ taskBindings \in BindingSnapshots
  /\ jobsToSchedule = EmptyMap
  /\ runnableTasks = EmptyMap
  /\ halted = FALSE
  /\ lastOp = [op |-> "new", arg |-> NoArg, returned |-> TRUE, again |-> FALSE]
  /\ retDeltas = <<>>
  /\ retOrigin = <<>>
  /\ retNum = 0
  /\ hookLog = <<>>
  /\ jobWrites = <<>>
  /\ callLog = <<>>
  /\ hjcTrace = <<>>
  /\ registered = {}
  /\ pc = [p \in Procs |-> Idle]
  /\ regCall = NoCall

NextBound ==
  \/ \E j \in JobIDs : AddJob(j)
  \/ \E j \in JobIDs : HandleJobCompletion(j)
  \/ RunSchedulingIteration

SpecBound == InitBound /\ [][NextBound]_vars

\* ------------------------------------------- deltas over incomplete registries
\* Registries that lack some entries: task T1 of job J1 and task T2 of job J2
\* are registered, task T3 is not; resource P1 is registered, P2 is not; job J1
\* is registered, J2 is not.
InitSparse ==
  /\ jobMap = [j \in {"J1"} |-> JobDescriptor(j)]
  /\ taskMap = [t \in TaskIDs |->
                  IF t = "T2" THEN [Uid |-> t, JobID |-> JobUuid("J2")] ELSE TaskDescriptor(t)]
  /\ resourceMap = [r \in {"P1"} |-> ResourceStatus(r)]
  /\ jobState = [j \in JobIDs |-> "Pending"]
  /\ schedulable = [n \in Nodes |-> FALSE]
  /\ resourceRoots = {}
  /\ taskBindings = EmptyMap
  /\ jobsToSchedule = EmptyMap
  /\ runnableTasks = EmptyMap
  /\ halted = FALSE
  /\ lastOp = [op |-> "new", arg |-> NoArg, returned |-> TRUE, again |-> FALSE]
  /\ retDeltas = <<>>
  /\ retOrigin = <<>>
  /\ retNum = 0
  /\ hookLog = <<>>
  /\ jobWrites = <<>>
  /\ callLog = <<>>
  /\ hjcTrace = <<>>
  /\ registered = {}
  /\ pc = [p \in Procs |-> Idle]
  /\ regCall = NoCall

\* The deltas handed to ApplySchedulingDeltas over these registries: of every
\* type, for a resolving pair, for an unregistered task and for an unregistered
\* resource; and a PLACE delta for the task of the unregistered job.
SparseDeltas ==
  {SchedulingDelta(ty, tr[1], tr[2]) :
     ty \in DeltaTypes \cup {"UNKNOWN"},
     tr \in {<<"T1", "P1">>, <<"T3", "P1">>, <<"T1", "P2">>}}
  \cup {SchedulingDelta("PLACE", "T2", "P1")}
SparseArgs == SeqsUpTo(SparseDeltas, MaxList)

NextSparse ==
  \/ \E j \in JobIDs : HandleJobCompletion(j)
  \/ \E deltas \in SparseArgs : ApplySchedulingDeltasCall(deltas)

SpecSparse == InitSparse /\ [][NextSparse]_vars

\* ----------------------------------------------------- registry operations
\* Keys and values of each registry.
RegistryKeys(reg) ==
  CASE reg = "jobMap" -> JobIDs [] reg = "taskMap" -> TaskIDs [] OTHER -> ResourceIDs
RegistryValue(reg, k) ==
  CASE reg = "jobMap" -> JobDescriptor(k)
    [] reg = "taskMap" -> TaskDescriptor(k)
    [] OTHER -> ResourceStatus(k)
RegistryValues(reg) == {RegistryValue(reg, k) : k \in RegistryKeys(reg)}
\* The map M of registry reg.
Registry(reg) ==
  CASE reg = "jobMap" -> jobMap [] reg = "taskMap" -> taskMap [] OTHER -> resourceMap
StoreRegistry(reg, M) ==
  /\ jobMap' = IF reg = "jobMap" THEN M ELSE jobMap
  /\ taskMap' = IF reg = "taskMap" THEN M ELSE taskMap
  /\ resourceMap' = IF reg = "resourceMap" THEN M ELSE resourceMap

\* What an insertion does to the map M.
Insertion(op, M, k, val) ==
  IF op = "InsertOrUpdate" THEN InsertOrUpdate(M, k, val) ELSE InsertIfNotPresent(M, k, val)

\* One insertion, run from its Lock() to its deferred Unlock().
InsertCall(reg, op, k, val) ==
  /\ ~halted
  /\ \A p \in Procs : pc[p] = Idle
  /\ \E res \in {Insertion(op, Registry(reg), k, val)} :
       /\ StoreRegistry(reg, res.M)
       /\ regCall' = [reg |-> reg, op |-> op, k |-> k, val |-> val, ret |-> res.ret]
  /\ UNCHANGED <<pc, jobState, schedulable, resourceRoots, taskBindings, jobsToSchedule,
                 runnableTasks, halted, lastOp, retDeltas, retOrigin, retNum, hookLog,
                 jobWrites, callLog, hjcTrace, registered>>

\* The registries under sequences of insertions.
NextRegistry ==
  \E reg \in Registries, op \in WriteOps :
    \E k \in RegistryKeys(reg), val \in RegistryValues(reg) : InsertCall(reg, op, k, val)

SpecRegistry == Init /\ [][NextRegistry]_vars

\* The lock kinds held on the mutex of registry reg.
HeldOn(reg) == {LockKind(pc[p].op) : p \in {q \in Procs : pc[q].reg = reg}}

\* Goroutine p calls operation op of registry reg and is granted the lock.
Enter(p, reg, op) ==
  /\ ~halted
  /\ pc[p] = Idle
  /\ RWMutexGrants(HeldOn(reg), LockKind(op))
  /\ pc' = [pc EXCEPT ![p] = [reg |-> reg, op |-> op]]
  /\ UNCHANGED <<regCall, jobMap, taskMap, resourceMap, jobState, schedulable,
                 resourceRoots, taskBindings, jobsToSchedule, runnableTasks, halted, lastOp,
                 retDeltas, retOrigin, retNum, hookLog, jobWrites, callLog, hjcTrace,
                 registered>>

\* Goroutine p runs the body of its operation and the deferred unlock: an
\* insertion stores the descriptor of key k, a lookup changes nothing.
Leave(p, k) ==
  /\ pc[p] # Idle
  /\ k \in RegistryKeys(pc[p].reg)
  /\ IF pc[p].op \in WriteOps
     THEN StoreRegistry(pc[p].reg,
                        Insertion(pc[p].op, Registry(pc[p].reg), k,
                                  RegistryValue(pc[p].reg, k)).M)
     ELSE UNCHANGED <<jobMap, taskMap, resourceMap>>
  /\ pc' = [pc EXCEPT ![p] = Idle]
  /\ UNCHANGED <<regCall, jobState, schedulable, resourceRoots, taskBindings,
                 jobsToSchedule, runnableTasks, halted, lastOp, retDeltas, retOrigin, retNum,
                 hookLog, jobWrites, callLog, hjcTrace, registered>>

\* Goroutines calling registry operations concurrently.
NextLocks ==
  \/ \E p \in Procs, reg \in Registries, op \in ReadOps \cup WriteOps : Enter(p, reg, op)
  \/ \E p \in Procs, k \in JobIDs \cup TaskIDs \cup ResourceIDs : Leave(p, k)

SpecLocks == Init /\ [][NextLocks]_vars

\* ------------------------------------------------ rounds over several roots
\* The scheduler under registrations of every node of the topology and rounds.
NextRoots ==
  \/ \E n \in Nodes : RegisterResource(n)
  \/ RunSchedulingIteration

SpecRoots == Init /\ [][NextRoots]_vars

\* ================================================================== claims
IsRound == lastOp.op = "RunSchedulingIteration"
RoundReturned == IsRound /\ lastOp.returned
Indices(s) == 1..Len(s)
\* The job a task belongs to, by its Task Registry entry.
JobOfTask(t) == MustJobIDFromString(taskMap[t].JobID)

\* C1: in the list one round builds, applies and returns, every delta that came
\* from SchedulingDeltasForPreemptedTasks precedes every delta that came from
\* NodeBindingToSchedulingDelta, so a PREEMPT delta on a resource is listed, and
\* its eviction hook invoked, before any PLACE delta on that resource.
C1_PreemptBeforePlace ==
  IsRound =>
    /\ \A i, k \in Indices(retDeltas) :
         (retOrigin[i] = "SchedulingDeltasForPreemptedTasks" /\
          retOrigin[k] = "NodeBindingToSchedulingDelta") => i < k
    /\ \A i, k \in Indices(retDeltas) :
         (retDeltas[i].Type = "PREEMPT" /\ retDeltas[k].Type = "PLACE" /\
          retDeltas[i].ResourceId = retDeltas[k].ResourceId) => i < k
    /\ \A p, q \in Indices(hookLog) :
         (hookLog[p][1] = "HandleTaskEviction" /\ hookLog[q][1] = "HandleTaskPlacement" /\
          hookLog[p][3] = hookLog[q][3]) => p < q

\* A returned round that preempted T1 from P1 and placed T2 onto P1.
C1_Witness ==
  /\ RoundReturned
  /\ \E i, k \in Indices(retDeltas) :
       /\ retDeltas[i] = SchedulingDelta("PREEMPT", "T1", "P1")
       /\ retDeltas[k] = SchedulingDelta("PLACE", "T2", "P1")
  /\ \E p, q \in Indices(hookLog) :
       /\ hookLog[p] = <<"HandleTaskEviction", "T1", "p1">>
       /\ hookLog[q] = <<"HandleTaskPlacement", "T2", "p1">>

\* C2: the placement count a completed round returns, which is the count
\* ApplySchedulingDeltas returns for the round's list, is the number of PLACE
\* deltas in that list, whatever PREEMPT, MIGRATE and NOOP deltas it also holds.
C2_CountIsNumberOfPlace ==
  (lastOp.op \in {"RunSchedulingIteration", "ApplySchedulingDeltas"} /\ lastOp.returned) =>
    retNum = Cardinality({i \in Indices(retDeltas) : retDeltas[i].Type = "PLACE"})

\* A returned round whose list holds two PLACE deltas and a PREEMPT delta.
C2_Witness ==
  /\ RoundReturned
  /\ retNum = 2
  /\ Len(retDeltas) > retNum
  /\ \E i \in Indices(retDeltas) : retDeltas[i].Type = "PREEMPT"

\* C3: once a PLACE delta has been applied for a task, the task's job is Running,
\* whether the delta found it Running or not; the state is assigned only when
\* the job was not Running.
C3_PlaceActivatesJob ==
  IsRound =>
    /\ \A p \in Indices(hookLog) :
         hookLog[p][1] = "HandleTaskPlacement" => jobState[JobOfTask(hookLog[p][2])] = "Running"
    /\ \A w \in Indices(jobWrites) :
         jobWrites[w][2] # "Running" /\ jobState[jobWrites[w][1]] = "Running"

\* A round that applied two PLACE deltas for tasks of J1: the first found J1
\* Completed and made it Running, the second found it Running and assigned nothing.
C3_Witness ==
  /\ RoundReturned
  /\ Len(hookLog) = 2
  /\ \A p \in Indices(hookLog) : hookLog[p][1] = "HandleTaskPlacement"
  /\ jobWrites = <<<<"J1", "Completed">>>>
  /\ jobState["J1"] = "Running"

IsCompletion == lastOp.op = "HandleJobCompletion"

\* C4: when HandleJobCompletion(J) returns for a job J with a Job Registry
\* entry, J is in neither jobsToSchedule nor runnableTasks and its recorded
\* state is Completed; the statement that assigns Completed runs when J has
\* already left both sets.
C4_CompletedAfterRemoval ==
  (IsCompletion /\ lastOp.returned) =>
    /\ lastOp.arg \notin DOMAIN jobsToSchedule
    /\ lastOp.arg \notin DOMAIN runnableTasks
    /\ JobStateOf(jobState, FindPtrOrNull(jobMap, lastOp.arg)) = "Completed"
    /\ \E i \in Indices(hjcTrace) : hjcTrace[i].stmt = "State = Completed"
    /\ \A i \in Indices(hjcTrace) :
         hjcTrace[i].stmt = "State = Completed" =>
           /\ i > 1
           /\ ~hjcTrace[i - 1].inJobsToSchedule
           /\ ~hjcTrace[i - 1].inRunnableTasks

\* HandleJobCompletion returned for a Running job that was in both sets.
C4_Witness ==
  /\ IsCompletion /\ lastOp.returned
  /\ hjcTrace[1].inJobsToSchedule
  /\ hjcTrace[1].inRunnableTasks
  /\ hjcTrace[1].state = "Running"
  /\ jobState[lastOp.arg] = "Completed"

\* C5 as stated: a HandleJobCompletion(J) call that finds J already Completed,
\* its registry entry still the one of the first call, halts instead of returning.
C5_SecondCompletionHalts ==
  [][\A j \in JobIDs :
       (IsCompletion' /\ lastOp'.arg = j /\ j \in DOMAIN jobMap /\
        JobStateOf(jobState, FindPtrOrNull(jobMap, j)) = "Completed")
       => (halted' /\ ~lastOp'.returned)]_vars

\* C5 as amended: HandleJobCompletion(J) halts exactly when J has no Job
\* Registry entry; a call that finds J already Completed, its entry still in the
\* registry, returns normally and leaves J Completed and out of both sets.
C5_SecondCompletionReturns ==
  [][\A j \in JobIDs :
       (IsCompletion' /\ lastOp'.arg = j) =>
         /\ lastOp'.returned <=> j \in DOMAIN jobMap
         /\ halted' <=> j \notin DOMAIN jobMap
         /\ (j \in DOMAIN jobMap /\
             JobStateOf(jobState, FindPtrOrNull(jobMap, j)) = "Completed")
            => /\ jobState'[j] = "Completed"
               /\ j \notin DOMAIN jobsToSchedule'
               /\ j \notin DOMAIN runnableTasks']_vars

\* A completion call that returned for a job it found Completed and, added
\* again since, in both sets.
C5_Witness ==
  /\ IsCompletion /\ lastOp.returned /\ ~halted
  /\ hjcTrace[1].state = "Completed"
  /\ hjcTrace[1].inJobsToSchedule
  /\ hjcTrace[1].inRunnableTasks
  /\ lastOp.arg \notin DOMAIN runnableTasks

\* C6: a job whose state is Completed keeps that state whatever operation
\* follows.
C6_CompletedIsTerminal ==
  [][\A j \in JobIDs : jobState[j] = "Completed" => jobState'[j] = "Completed"]_vars

\* The topology subtree rooted at a node: the node and all its descendants.
RECURSIVE Subtree(_)
Subtree(n) == {n} \cup UNION {Subtree(c) : c \in Range(Children(n))}

\* C7: after RegisterResource(root), every PU node of the subtree rooted at
\* root is schedulable, and no node that is not a PU is.
C7_SubtreePUsSchedulable ==
  lastOp.op = "RegisterResource" =>
    /\ \A n \in Subtree(lastOp.arg) : NodeType(n) = "PU" => schedulable[n]
    /\ \A n \in Nodes : NodeType(n) # "PU" => ~schedulable[n]

\* C8: RegisterResource called again with a node it was called with before
\* changes neither resourceRoots nor any schedulable flag.
C8_RegisterTwiceChangesNothing ==
  [][(lastOp'.op = "RegisterResource" /\ lastOp'.arg \in registered)
       => (schedulable' = schedulable /\ resourceRoots' = resourceRoots)]_vars

\* The root M1 registered a second time, a PU flag being set at the time.
C8_Witness ==
  /\ lastOp.op = "RegisterResource" /\ lastOp.again
  /\ lastOp.arg = "M1"
  /\ resourceRoots = {"M1"}
  /\ schedulable["P1"]

\* C9, for the round just returned: every task that got a PLACE or MIGRATE
\* delta is bound in taskBindings to the resource of that delta.
C9_BindingsFollowDeltas ==
  RoundReturned =>
    \A i \in Indices(retDeltas) :
         retDeltas[i].Type \in {"PLACE", "MIGRATE"} =>
           /\ retDeltas[i].TaskId \in DOMAIN taskBindings
           /\ taskBindings[retDeltas[i].TaskId] =
                MustResourceIDFromString(retDeltas[i].ResourceId)

\* The (task, resource) pairs of the PLACE deltas of a list.
PlacedPairs(deltas) ==
  {<<deltas[i].TaskId, deltas[i].ResourceId>> :
     i \in {k \in Indices(deltas) : deltas[k].Type = "PLACE"}}

\* C10: a pair (task, resource) that got a PLACE delta in one round and is
\* assigned again by the solver in the round that follows gets no PLACE delta
\* in that round.
C10_NoSecondPlace ==
  [][(RoundReturned /\ RoundReturned') =>
       \A k \in Indices(retDeltas') :
         (retOrigin'[k] = "NodeBindingToSchedulingDelta" /\
          <<retDeltas'[k].TaskId, retDeltas'[k].ResourceId>> \in PlacedPairs(retDeltas))
         => retDeltas'[k].Type # "PLACE"]_vars

\* The deltas of the returned list that NodeBindingToSchedulingDelta produced for
\* task t.
BindingDeltasOf(t) ==
  {i \in Indices(retDeltas) :
     retOrigin[i] = "NodeBindingToSchedulingDelta" /\ retDeltas[i].TaskId = t}
\* The calls of NodeBindingToSchedulingDelta the last round made.
BindingCalls == {c \in Range(callLog) : c[1] = "NodeBindingToSchedulingDelta"}

\* C11 as stated: in a round, a pair (t, r) with t bound to r gets no delta, a
\* pair with t bound to another resource gets exactly one MIGRATE delta (t, r),
\* and a pair with t not bound gets exactly one PLACE delta (t, r).
C11_NoDeltaWhenUnchanged ==
  IsRound =>
    \A c \in BindingCalls :
      LET t == c[2]
          r == c[3]
          ty == IF t \notin DOMAIN taskBindings THEN "PLACE" ELSE "MIGRATE"
      IN IF t \in DOMAIN taskBindings /\ taskBindings[t] = r
         THEN BindingDeltasOf(t) = {}
         ELSE /\ Cardinality(BindingDeltasOf(t)) = 1
              /\ \A i \in BindingDeltasOf(t) : retDeltas[i] = SchedulingDelta(ty, t, r)

\* C11 as amended: every pair (t, r) of the assignment gets exactly one delta
\* in the list: NOOP (t, r) when t is bound to r, MIGRATE (t, r) when t is bound
\* to another resource, PLACE (t, r) when t is not bound; a NOOP delta invokes
\* no hook and is not counted.
C11_OneDeltaPerPair ==
  IsRound =>
    /\ \A c \in BindingCalls :
         LET t == c[2]
             r == c[3]
             ty == IF t \notin DOMAIN taskBindings THEN "PLACE"
                   ELSE IF taskBindings[t] # r THEN "MIGRATE" ELSE "NOOP"
         IN /\ Cardinality(BindingDeltasOf(t)) = 1
            /\ \A i \in BindingDeltasOf(t) : retDeltas[i] = SchedulingDelta(ty, t, r)
    /\ Len(hookLog) = Cardinality({i \in Indices(retDeltas) : retDeltas[i].Type # "NOOP"})
    /\ retNum = Cardinality({i \in Indices(retDeltas) : retDeltas[i].Type = "PLACE"})

\* A returned round over the snapshot {T1 -> P1} whose assignment kept T1 on P1
\* and put the unbound T2 on P2.
C11_Witness ==
  /\ RoundReturned
  /\ DOMAIN taskBindings = {"T1"} /\ taskBindings["T1"] = "P1"
  /\ <<"NodeBindingToSchedulingDelta", "T1", "P1">> \in BindingCalls
  /\ <<"NodeBindingToSchedulingDelta", "T2", "P2">> \in BindingCalls
  /\ SchedulingDelta("NOOP", "T1", "P1") \in Range(retDeltas)
  /\ SchedulingDelta("PLACE", "T2", "P2") \in Range(retDeltas)
  /\ retNum = 1

IsApply == lastOp.op = "ApplySchedulingDeltas"
\* Delta d names a task without a Task Registry entry or a resource without a
\* Resource Registry entry.
Unresolved(d) ==
  \/ d.TaskId \notin DOMAIN taskMap
  \/ MustResourceIDFromString(d.ResourceId) \notin DOMAIN resourceMap
\* Delta d resolves, has a known type and, if a PLACE, a registered job.
AppliesCleanly(d) ==
  /\ ~Unresolved(d)
  /\ d.Type \in DeltaTypes
  /\ d.Type = "PLACE" => JobOfTask(d.TaskId) \in DOMAIN jobMap
\* Index of the first delta of ds that satisfies Bad; Len(ds) + 1 if none does.
FirstIndex(ds, Bad(_)) ==
  IF \E i \in Indices(ds) : Bad(ds[i])
  THEN CHOOSE i \in Indices(ds) : Bad(ds[i]) /\ \A k \in 1..(i - 1) : ~Bad(ds[k])
  ELSE Len(ds) + 1
\* Among the first n deltas of ds, the number whose type is in tys.
CountOfTypes(ds, n, tys) == Cardinality({i \in 1..n : i <= Len(ds) /\ ds[i].Type \in tys})
HookTypes == {"PLACE", "PREEMPT", "MIGRATE"}

\* C12: when the applied list holds a delta, of whatever type, whose task or
\* resource has no registry entry, the application halts; hooks, counter and
\* job states are those the deltas before the first such delta have produced.
C12_UnresolvedDeltaHalts ==
  [][(IsApply' /\ \E i \in Indices(retDeltas') : Unresolved(retDeltas'[i])) =>
       LET ds == retDeltas'
           f == FirstIndex(ds, Unresolved)
           clean == \A i \in 1..(f - 1) : AppliesCleanly(ds[i])
       IN /\ halted' /\ ~lastOp'.returned
          /\ Len(hookLog') <= CountOfTypes(ds, f - 1, HookTypes)
          /\ retNum' <= CountOfTypes(ds, f - 1, {"PLACE"})
          /\ clean => /\ Len(hookLog') = CountOfTypes(ds, f - 1, HookTypes)
                      /\ retNum' = CountOfTypes(ds, f - 1, {"PLACE"})
          /\ \A p \in Indices(hookLog') :
                \E i \in 1..(f - 1) : /\ hookLog'[p][2] = ds[i].TaskId
                                       /\ hookLog'[p][3] = ds[i].ResourceId
          /\ \A j \in JobIDs :
                jobState'[j] # jobState[j] =>
                  \E i \in 1..(f - 1) : /\ ds[i].Type = "PLACE"
                                         /\ ~Unresolved(ds[i])
                                         /\ JobOfTask(ds[i].TaskId) = j]_vars

\* A PLACE delta was applied and made J1 Running, then a NOOP delta for the
\* unregistered task T3 halted the application.
C12_Witness ==
  /\ IsApply /\ halted /\ ~lastOp.returned
  /\ retDeltas = <<SchedulingDelta("PLACE", "T1", "P1"), SchedulingDelta("NOOP", "T3", "P1")>>
  /\ hookLog = <<<<"HandleTaskPlacement", "T1", "p1">>>>
  /\ retNum = 1
  /\ jobState["J1"] = "Running"

\* The goroutines inside a locked section of registry reg.
Inside(reg) == {p \in Procs : pc[p].reg = reg}

\* C13: while an insertion is inside its locked section on a registry, no
\* other operation is inside a locked section on the same registry.
C13_WriterExcludesAll ==
  \A reg \in Registries :
    \A p \in Inside(reg) : pc[p].op \in WriteOps => Inside(reg) = {p}

\* Two lookups inside their locked sections on the Job Registry at once.
C13_Witness ==
  /\ Cardinality(Inside("jobMap")) >= 2
  /\ \A p \in Inside("jobMap") : pc[p].op \in ReadOps
  /\ \E p, q \in Inside("jobMap") : pc[p].op = "FindPtrOrNull" /\ pc[q].op = "ContainsKey"

\* C14: an insertion returns true exactly when its key was absent; InsertOrUpdate
\* leaves the key mapped to the value given, InsertIfNotPresent on a present key
\* leaves the stored value; no other key and no other registry changes.
C14_InsertionContract ==
  [][regCall' # regCall =>
       LET c == regCall'
           M == Registry(c.reg)
           N == CASE c.reg = "jobMap" -> jobMap' [] c.reg = "taskMap" -> taskMap'
                  [] OTHER -> resourceMap'
       IN /\ c.ret <=> c.k \notin DOMAIN M
          /\ DOMAIN N = DOMAIN M \cup {c.k}
          /\ \A x \in DOMAIN M \ {c.k} : N[x] = M[x]
          /\ c.op = "InsertOrUpdate" => N[c.k] = c.val
          /\ c.op = "InsertIfNotPresent" =>
                N[c.k] = IF c.k \in DOMAIN M THEN M[c.k] ELSE c.val
          /\ \A other \in Registries \ {c.reg} : Registry(other)' = Registry(other)]_vars

\* InsertIfNotPresent returned false for a key of the Job Registry that holds
\* another value than the one offered, after an InsertOrUpdate had replaced it.
C14_Witness ==
  /\ regCall.op = "InsertIfNotPresent" /\ regCall.reg = "jobMap"
  /\ ~regCall.ret
  /\ regCall.k = "J1" /\ regCall.val = JobDescriptor("J1")
  /\ jobMap["J1"] = JobDescriptor("J2")

\* C15: HandleJobCompletion(J) for a job J without a Job Registry entry halts
\* and leaves jobsToSchedule, runnableTasks and every job's state as they were.
C15_UnknownJobCompletionHalts ==
  [][\A j \in JobIDs :
       (IsCompletion' /\ lastOp'.arg = j /\ j \notin DOMAIN jobMap) =>
         /\ halted' /\ ~lastOp'.returned
         /\ jobsToSchedule' = jobsToSchedule
         /\ runnableTasks' = runnableTasks
         /\ jobState' = jobState]_vars

\* HandleJobCompletion halted on job J2, which has no registry entry and is
\* still in jobsToSchedule and runnableTasks, J1 being Running.
C15_Witness ==
  /\ IsCompletion /\ lastOp.arg = "J2" /\ ~lastOp.returned /\ halted
  /\ "J2" \notin DOMAIN jobMap
  /\ "J2" \in DOMAIN jobsToSchedule
  /\ "J2" \in DOMAIN runnableTasks
  /\ jobState["J1"] = "Running"

\* Positions in callLog of the calls named name.
CallsOf(name) == {i \in Indices(callLog) : callLog[i][1] = name}

\* C16: a round that completes calls UpdateResourceTopology exactly once for
\* each member of resourceRoots and for nothing else, every such call coming
\* after the deltas of the round have been applied.
C16_EveryRootUpdatedOnce ==
  RoundReturned =>
    /\ \A r \in resourceRoots :
         Cardinality({i \in CallsOf("UpdateResourceTopology") : callLog[i][2] = r}) = 1
    /\ \A i \in CallsOf("UpdateResourceTopology") : callLog[i][2] \in resourceRoots
    /\ Cardinality(CallsOf("ApplySchedulingDeltas")) = 1
    /\ \A i \in CallsOf("UpdateResourceTopology"), k \in CallsOf("ApplySchedulingDeltas") :
         k < i

\* A returned round that applied a delta with two roots registered.
C16_Witness ==
  /\ RoundReturned
  /\ resourceRoots = {"M1", "M2"}
  /\ retDeltas # <<>>
  /\ Cardinality(CallsOf("UpdateResourceTopology")) = 2

\* C17: resourceRoots holds exactly the nodes RegisterResource was called with
\* that have an empty ParentId, and never loses a member.
C17_RootsAreParentlessRegistered ==
  /\ [](resourceRoots = {n \in registered : ParentId(n) = ""})
  /\ [][resourceRoots \subseteq resourceRoots']_vars

\* Both machines and the processing unit P1 registered: the machines are roots.
C17_Witness ==
  /\ registered = {"M1", "M2", "P1"}
  /\ resourceRoots = {"M1", "M2"}
  /\ lastOp.op = "RegisterResource" /\ lastOp.arg = "P1"

\* C18: AddJob(job) maps the job's id to the job in jobsToSchedule and changes
\* nothing else of jobsToSchedule, runnableTasks, taskBindings, resourceRoots,
\* the registries or the job states, and calls no collaborator; a job leaves
\* jobsToSchedule only by a HandleJobCompletion call for it.
C18_AddJobOnlyAdds ==
  [][/\ \A j \in JobIDs :
          (lastOp'.op = "AddJob" /\ lastOp'.arg = j) =>
            /\ DOMAIN jobsToSchedule' = DOMAIN jobsToSchedule \cup {j}
            /\ jobsToSchedule'[j] = JobDescriptor(j)
            /\ \A x \in DOMAIN jobsToSchedule \ {j} : jobsToSchedule'[x] = jobsToSchedule[x]
            /\ UNCHANGED <<runnableTasks, taskBindings, resourceRoots, jobMap, taskMap,
                           resourceMap, jobState, schedulable>>
            /\ callLog' = <<>>
     /\ \A j \in DOMAIN jobsToSchedule :
          j \notin DOMAIN jobsToSchedule' => (IsCompletion' /\ lastOp'.arg = j)]_vars

\* AddJob(J2) has run on a scheduler that holds a root, has J1 to schedule with
\* runnable tasks, and J1 Running after a round.
C18_Witness ==
  /\ lastOp.op = "AddJob" /\ lastOp.arg = "J2"
  /\ DOMAIN jobsToSchedule = {"J1", "J2"}
  /\ "J1" \in DOMAIN runnableTasks
  /\ resourceRoots = {"M1"}
  /\ jobState["J1"] = "Running"

\* C19: PREEMPT, MIGRATE and NOOP deltas that resolve change no job's state
\* and do not count: a job's state changes only if the list holds a PLACE delta
\* for one of its tasks, the counter never exceeds the number of PLACE deltas,
\* and a list without a PLACE delta leaves every job state alone and counts 0.
C19_OnlyPlaceCountsAndActivates ==
  [][(lastOp'.op \in {"ApplySchedulingDeltas", "RunSchedulingIteration"}) =>
       LET ds == retDeltas'
           places == {i \in Indices(ds) : ds[i].Type = "PLACE"}
       IN /\ \A j \in JobIDs :
               jobState'[j] # jobState[j] => \E i \in places : JobOfTask(ds[i].TaskId) = j
          /\ retNum' <= Cardinality(places)
          /\ Len(jobWrites') <= Cardinality(places)
          /\ places = {} => (jobState' = jobState /\ retNum' = 0 /\ jobWrites' = <<>>)]_vars

\* A PREEMPT, a MIGRATE and a NOOP delta were applied and the call returned:
\* two hooks were invoked, nothing was counted and no job state was assigned.
C19_Witness ==
  /\ IsApply /\ lastOp.returned
  /\ Len(retDeltas) = 3
  /\ {retDeltas[i].Type : i \in Indices(retDeltas)} = {"PREEMPT", "MIGRATE", "NOOP"}
  /\ Len(hookLog) = 2
  /\ retNum = 0
  /\ jobWrites = <<>>

\* Delta d is a PLACE delta that resolves, for a task whose job has no Job
\* Registry entry.
PlaceForUnknownJob(d) ==
  /\ d.Type = "PLACE"
  /\ ~Unresolved(d)
  /\ JobOfTask(d.TaskId) \notin DOMAIN jobMap
StopsApplication(d) == ~AppliesCleanly(d)

\* C20: when the first delta that does not apply is a PLACE delta whose task's
\* job has no registry entry, the application halts there: no hook and no count
\* for it or for a later delta, while the jobs the earlier PLACE deltas made
\* Running stay Running and all other job states are as before.
C20_PlaceForUnknownJobAborts ==
  [][(IsApply' /\ \E i \in Indices(retDeltas') : StopsApplication(retDeltas'[i])) =>
       LET ds == retDeltas'
           f == FirstIndex(ds, StopsApplication)
       IN PlaceForUnknownJob(ds[f]) =>
            /\ halted' /\ ~lastOp'.returned
            /\ Len(hookLog') = CountOfTypes(ds, f - 1, HookTypes)
            /\ retNum' = CountOfTypes(ds, f - 1, {"PLACE"})
            /\ \A j \in JobIDs :
                  jobState'[j] =
                    IF \E i \in 1..(f - 1) : ds[i].Type = "PLACE" /\ JobOfTask(ds[i].TaskId) = j
                    THEN "Running" ELSE jobState[j]]_vars

\* PLACE (T1, P1) made J1 Running, then PLACE (T2, P1), T2 a task of the
\* unregistered job J2, halted the application.
C20_Witness ==
  /\ IsApply /\ halted /\ ~lastOp.returned
  /\ retDeltas = <<SchedulingDelta("PLACE", "T1", "P1"), SchedulingDelta("PLACE", "T2", "P1")>>
  /\ "J2" \notin DOMAIN jobMap
  /\ hookLog = <<<<"HandleTaskPlacement", "T1", "p1">>>>
  /\ retNum = 1
  /\ jobWrites = <<<<"J1", "Pending">>>>
  /\ jobState["J1"] = "Running"

====
